---- MODULE Spec2Model ----
(***************************************************************************)
(* A model of racker/go-restclient: Client.Exchange, the interceptor chain *)
(* of Client.doRequest, the response handling of ExchangeWithContext, and  *)
(* the Identity v2 token authenticator (IdentityV2Authenticator).          *)
(*                                                                         *)
(* Each caller is a goroutine inside Client.Exchange.  A caller owns a     *)
(* stack of exchange frames: the outer exchange and, while the token       *)
(* authenticator refreshes, the nested exchange of its private client.     *)
(* The authenticator's token and tokenExpiration fields are shared by all  *)
(* callers and accessed without any lock, so every read and write of them  *)
(* is a step of its own.                                                   *)
(***************************************************************************)
EXTENDS Integers, Sequences, FiniteSets, TLC

\* ------------------------------------------------------------------ bounds
NumCallers == 2
MaxChain == 2
MaxCalls == 2
MaxTime == 2
MaxLifetime == 1

\* The deepest recursion of doRequest the model follows: one call more than
\* the longest interceptor list.
MaxStack == MaxChain + 1

Callers == 1..NumCallers

\* ------------------------------------------------------- program constants
\* the first status code that ExchangeWithContext treats as a failure
FailureThreshold == 300

JsonType == "application/json"
TextType == "text/plain"

\* ------------------------------------------------------------ environment
\* Status codes the far end may answer with (net/http hands all of them on).
StatusCodes == {101, 200, 299, 300, 500}

\* What reading the response body yields when the body is finally read:
\* well-formed content, content the JSON decoder rejects, or a read error
\* (the connection broke or the timeout context was cancelled meanwhile).
BodyReads == {"ok", "garbage", "readErr"}

\* The behaviours an Interceptor may have.  "pass" runs code before and
\* after next(req) and returns what next returned (BasicAuth, the logging
\* and header examples); "fail" returns an error without calling next;
\* "postfail" calls next and then returns an error of its own; "auth" is
\* identityV2AuthenticatorImpl.intercept.
Kinds == {"pass", "fail", "postfail", "auth"}

\* ------------------------------------------------------------------ values
\* Go errors: the innermost cause, and the fmt.Errorf("...: %w") wrappers
\* around it, outermost first.  code is FailedResponseError.StatusCode.
NoError == [kind |-> "nil", wraps |-> <<>>, code |-> 0]

Err(kind) == [kind |-> kind, wraps |-> <<>>, code |-> 0]

Wrap(msg, e) == [e EXCEPT !.wraps = <<msg>> \o @]

\* Entity: ContentType and the runtime shape of Content.
NoEntity == [ContentType |-> "", Content |-> "no entity"]

Entity(ct, shape) == [ContentType |-> ct, Content |-> shape]

NewJsonEntity(shape) == Entity(JsonType, shape)

NewTextEntity == Entity(TextType, "string")

\* http.Request header x-auth-token: absent, or a token value.
NoHeader == -1

\* A Content-Type or Accept header that is absent.
NotSet == "(not set)"

\* The Content-Type headers a response may come with.
RespContentTypes == {NotSet, TextType}

\* resp.Status, the status line that came with resp.StatusCode.
StatusLine(status) == <<status, "reason phrase">>

\* No FailedResponseError was built.
NoFailure == [StatusCode |-> 0]

\* identityV2AuthenticatorImpl.token before any refresh: the empty string.
EmptyToken == 0

\* The zero time.Time of an authenticator that never refreshed.
ZeroTime == 0

\* ------------------------------------------------ pure parts of the client
\* (mutant) the authenticator refreshes on every call
tokenAlwaysExpired(t, expiration) == TRUE

\* (mutant) the authenticator refreshes at the instant of expiry as well
tokenExpiredAtOrAfter(t, expiration) == t >= expiration

\* identityV2AuthenticatorImpl.intercept: time.Now().After(a.tokenExpiration)
tokenExpired(t, expiration) == t > expiration

\* (mutant) the failure path starts one status code late
isFailedStatusAbove(status) == status > FailureThreshold

\* ExchangeWithContext: resp.StatusCode >= 300 takes the failure path
isFailedStatus(status) == status >= FailureThreshold

\* (mutant) the continuation hands doRequest the same element again
NextElemStays(pos) == pos

\* (mutant) the continuation skips an element of the list
NextElemSkips(pos) == pos + 2

\* Client.doRequest: interceptorElem.Next(), the element the continuation
\* of the interceptor at pos hands to doRequest
NextElem(pos) == pos + 1

\* (mutant) doRequest forgets the interceptor's error
doRequestReturnDropsError(status, err) == [status |-> status, err |-> NoError]

\* Client.doRequest, after the interceptor returned (response, err):
\* an error drops the response, otherwise both are handed on.
doRequestReturn(status, err) ==
    IF err # NoError THEN [status |-> 0, err |-> err]
    ELSE [status |-> status, err |-> err]

\* Client.buildReqUrl: url.Parse (or BaseUrl.Parse) of urlIn fails or not.
buildReqUrl(urlIn) ==
    IF urlIn.parses THEN NoError
    ELSE Wrap("failed to parse given url", Err("url"))

\* (mutant) the JSON content type is looked at before the shape of the
\* content
buildBodyReaderJsonFirst(reqIn, encodes) ==
    IF reqIn = NoEntity THEN [body |-> "none", err |-> NoError]
    ELSE IF reqIn.ContentType = JsonType /\ reqIn.Content # "nil" THEN
        IF encodes THEN [body |-> "json", err |-> NoError]
        ELSE [body |-> "none", err |-> Wrap("failed to encode body", Err("encode"))]
    ELSE IF reqIn.Content = "string" THEN [body |-> "verbatim", err |-> NoError]
    ELSE IF reqIn.Content = "bytes" THEN [body |-> "verbatim", err |-> NoError]
    ELSE IF reqIn.Content = "reader" THEN [body |-> "stream", err |-> NoError]
    ELSE [body |-> "none",
          err |-> Err("unsupported combination of request content and type")]

\* (mutant) every request entity gets a body reader, none is refused
buildBodyReaderNeverFails(reqIn, encodes) ==
    IF reqIn = NoEntity THEN [body |-> "none", err |-> NoError]
    ELSE IF reqIn.Content \in {"string", "bytes"}
    THEN [body |-> "verbatim", err |-> NoError]
    ELSE IF reqIn.Content = "reader" THEN [body |-> "stream", err |-> NoError]
    ELSE IF reqIn.ContentType = JsonType /\ reqIn.Content # "nil"
    THEN [body |-> "json", err |-> NoError]
    ELSE [body |-> "none", err |-> NoError]

\* Client.buildBodyReader: the dispatch on the request entity.  The result
\* is the kind of body reader, or the error.
buildBodyReader(reqIn, encodes) ==
    IF reqIn = NoEntity THEN [body |-> "none", err |-> NoError]
    ELSE IF reqIn.Content = "string" THEN [body |-> "verbatim", err |-> NoError]
    ELSE IF reqIn.Content = "bytes" THEN [body |-> "verbatim", err |-> NoError]
    ELSE IF reqIn.Content = "reader" THEN [body |-> "stream", err |-> NoError]
    ELSE IF reqIn.ContentType = JsonType /\ reqIn.Content # "nil" THEN
        IF encodes THEN [body |-> "json", err |-> NoError]
        ELSE [body |-> "none", err |-> Wrap("failed to encode body", Err("encode"))]
    ELSE [body |-> "none",
          err |-> Err("unsupported combination of request content and type")]

\* (mutant) reading and decoding never report an error
processResponseContentIgnoresErrors(respOut, read) ==
    IF respOut.Content \in {"string", "bytes", "writer"} THEN NoError
    ELSE IF respOut.ContentType = JsonType /\ respOut.Content # "nil" THEN NoError
    ELSE Err("unsupported combination of request content reference and type")

\* Client.processResponseContent: the dispatch on the response entity's
\* content shape, against what reading the body yields.
processResponseContent(respOut, read) ==
    IF respOut.Content \in {"string", "bytes", "writer"} THEN
        IF read = "readErr" THEN Wrap("failed to read response body", Err("read"))
        ELSE NoError
    ELSE IF respOut.ContentType = JsonType /\ respOut.Content # "nil" THEN
        IF read = "ok" THEN NoError
        ELSE Wrap("failed to decode response", Err("decode"))
    ELSE Err("unsupported combination of request content reference and type")

\* Client.buildFailedResponseError: drains and closes the body, whatever
\* the read yields, and builds the FailedResponseError.
buildFailedResponseError(status) ==
    [err |-> [kind |-> "FailedResponseError", wraps |-> <<>>, code |-> status],
     body |-> "closed"]

\* (mutant) a close failure after a successful exchange is swallowed
exchangeReturnHidesCloseFailure(status, err, bodyState, respOut, read, closeFails) ==
    IF err # NoError THEN
        [err |-> Wrap("failed to send request", err), body |-> bodyState]
    ELSE IF isFailedStatus(status) THEN buildFailedResponseError(status)
    ELSE LET perr == IF respOut # NoEntity
                     THEN processResponseContent(respOut, read)
                     ELSE NoError
         IN  [err |-> perr, body |-> "closed"]

\* ExchangeWithContext from the return of doRequest on: the error handed to
\* the caller and the state the response body is left in.  bodyState is the
\* state of the body the transport produced ("none" when it produced none).
exchangeReturn(status, err, bodyState, respOut, read, closeFails) ==
    IF err # NoError THEN
        [err |-> Wrap("failed to send request", err), body |-> bodyState]
    ELSE IF isFailedStatus(status) THEN buildFailedResponseError(status)
    ELSE LET perr == IF respOut # NoEntity
                     THEN processResponseContent(respOut, read)
                     ELSE NoError
         IN  IF perr # NoError THEN [err |-> perr, body |-> "closed"]
             ELSE IF closeFails
                  THEN [err |-> Wrap("failed to close response body", Err("close")),
                        body |-> "closed"]
                  ELSE [err |-> NoError, body |-> "closed"]

\* (mutant) the two headers are taken from the wrong entities
requestHeadersSwapped(reqIn, respOut) ==
    [ContentType |-> IF respOut # NoEntity /\ respOut.ContentType # ""
                     THEN respOut.ContentType ELSE NotSet,
     Accept |-> IF reqIn # NoEntity /\ reqIn.ContentType # ""
                THEN reqIn.ContentType ELSE NotSet]

\* Client.buildRequest, the headers it sets on the new request:
\* Content-Type from reqIn, Accept from respOut, each only if the entity is
\* given and its ContentType is not empty.
requestHeaders(reqIn, respOut) ==
    [ContentType |-> IF reqIn # NoEntity /\ reqIn.ContentType # ""
                     THEN reqIn.ContentType ELSE NotSet,
     Accept |-> IF respOut # NoEntity /\ respOut.ContentType # ""
                THEN respOut.ContentType ELSE NotSet]

\* Client.processResponseContent, what respOut.Content is afterwards: the
\* whole body as a string or as bytes, the caller's writer with what
\* io.Copy wrote to it, the caller's reference decoded into, or the content
\* as it was.
capturedContent(respOut, read) ==
    IF respOut.Content = "string" THEN
        IF read = "readErr" THEN "string" ELSE "body as string"
    ELSE IF respOut.Content = "bytes" THEN
        IF read = "readErr" THEN "bytes" ELSE "body as bytes"
    ELSE IF respOut.Content = "writer" THEN
        IF read = "readErr" THEN "writer holding part of body"
        ELSE "writer holding body"
    ELSE IF respOut.ContentType = JsonType /\ respOut.Content # "nil" THEN
        IF read = "ok" THEN "decoded into ref" ELSE respOut.Content
    ELSE respOut.Content

\* (mutant) the FailedResponseError forgets the response's content type
failedResponseWithoutType(status, ctype, read) ==
    [StatusCode |-> status, Status |-> StatusLine(status),
     Entity |-> [ContentType |-> "",
                 Content |-> IF read = "readErr" THEN "part of body as bytes"
                             ELSE "body as bytes"]]

\* Client.buildFailedResponseError, the fields of the FailedResponseError:
\* io.Copy into a buffer with its error discarded, so a failing read leaves
\* what was read until then; Header.Get yields "" for an absent header.
failedResponse(status, ctype, read) ==
    [StatusCode |-> status, Status |-> StatusLine(status),
     Entity |-> [ContentType |-> IF ctype = NotSet THEN "" ELSE ctype,
                 Content |-> IF read = "readErr" THEN "part of body as bytes"
                             ELSE "body as bytes"]]

\* (mutant) after a refresh intercept looks at the expiry again
afterAuthenticateChecksAgain == "call"

\* intercept, where it goes on when authenticate returned nil: to the line
\* that sets the header, without a second look at tokenExpiration.
afterAuthenticate == "sethdr"

\* (mutant) authenticate prefers the password
authRequestPrefersPassword(password, apikey) ==
    IF password # "" THEN "passwordCredentials" ELSE "apiKeyCredentials"

\* authenticate: the request value it builds, identityAuthApikeyReq when an
\* apikey is configured and identityAuthPasswordReq otherwise.
authRequest(password, apikey) ==
    IF apikey # "" THEN "apiKeyCredentials" ELSE "passwordCredentials"

\* (mutant) authenticate ignores the error of the Exchange
authenticateNeverFailed(err) == FALSE

\* authenticate: if err != nil after the Exchange on the private client
authenticateFailed(err) == err # NoError

\* Client.buildRequest: http.NewRequestWithContext refuses an invalid method.
buildRequest(method) ==
    IF method.valid THEN NoError
    ELSE Wrap("failed to setup request", Err("request"))

\* ------------------------------------------------------------------- state
VARIABLES
    interceptors,     \* Client.interceptors of the caller's client, in order
    now,              \* the wall clock, time.Now()
    token,            \* identityV2AuthenticatorImpl.token
    tokenExpiration,  \* identityV2AuthenticatorImpl.tokenExpiration
    expirationFrom,   \* history: the token id of the response whose Expires
                      \* tokenExpiration holds
    nextId,           \* the token id the identity service issues next
    calls,            \* Exchange calls started so far
    impl,             \* the identityV2AuthenticatorImpl that
                      \* IdentityV2Authenticator built, or its error
    stack,            \* per caller: the exchange frames it is inside
    returned,         \* history: what the Exchange that returned last
                      \* handed to its caller and what it had done, until
                      \* the next Exchange starts
    expiredOnArrival  \* history: the Expires of the authentication response
                      \* decoded last was not after time.Now() when
                      \* authenticate got it

vars == <<interceptors, now, token, tokenExpiration, expirationFrom, nextId,
          calls, impl, stack, returned, expiredOnArrival>>

\* (mutant) the authenticator calls the identity service through the
\* caller's client
identityInterceptorsShared == interceptors

\* The interceptors of the private client of IdentityV2Authenticator:
\* restClient := New() and nothing ever adds to it.
identityInterceptors == <<>>

ChainOf(client) ==
    IF client = "outer" THEN interceptors ELSE identityInterceptors

\* Where now stands relative to an expiration (history only).
Compare(t, expiration) ==
    IF t < expiration THEN "before"
    ELSE IF t = expiration THEN "at" ELSE "after"

\* c.interceptors.Front(): the element doRequest starts at.
Front == 1

\* A frame: one ExchangeWithContext in progress.  pos is the list element
\* doRequest is at (past the end: nil, the transport); up is the call
\* stack, the interceptors whose next(req) has not returned yet; status,
\* err are the (response, error) pair being returned; body is the state of
\* the response body the transport produced; authId, authExp are the
\* decoded resp of authenticate.  History: log (what ran, in order), sends,
\* chk (what the expiry check saw), refreshes, subErr and subBody (the
\* error the nested exchange returned, the state it left its body in),
\* raised (the error of an interceptor that returned without calling next).
\* req is the request buildRequest made: its two headers and the kind of
\* body reader buildBodyReader chose; ctype is the Content-Type header of
\* the response; reqIn is kept to compare req against, and args keeps the
\* method, the URL and whether the JSON encoder accepts the content (TRUE
\* where no encoder runs) that the exchange was called with.
ValidArgs == [method |-> [valid |-> TRUE], urlIn |-> [parses |-> TRUE],
              encodes |-> TRUE]

NewFrame(client, reqIn, respOut) ==
    [client |-> client, pc |-> "call", pos |-> Front, up |-> <<>>,
     hdr |-> NoHeader, status |-> 0, err |-> NoError, body |-> "none",
     reqIn |-> reqIn,
     req |-> [headers |-> requestHeaders(reqIn, respOut),
              body |-> buildBodyReader(reqIn, TRUE).body],
     ctype |-> NotSet,
     respOut |-> respOut, authId |-> EmptyToken, authExp |-> ZeroTime,
     log |-> <<>>, sends |-> 0, chk |-> "none", refreshes |-> 0,
     subErr |-> NoError, subBody |-> "none", raised |-> NoError,
     args |-> ValidArgs]

\* A request that was not built.
NoRequest == [headers |-> [ContentType |-> NotSet, Accept |-> NotSet],
              body |-> "none"]

\* stage is how far ExchangeWithContext got: "url", "body", "request" when
\* the step of that name failed, "sent" when doRequest was called.
NoResult ==
    [done |-> FALSE, caller |-> 0, err |-> NoError, body |-> "none", log |-> <<>>,
     sends |-> 0, chk |-> "none", refreshes |-> 0, hdr |-> NoHeader,
     status |-> 0, subErr |-> NoError, subBody |-> "none",
     raised |-> NoError, built |-> FALSE,
     stage |-> "none", reqIn |-> NoEntity, respOut |-> NoEntity,
     reader |-> [body |-> "none", err |-> NoError], req |-> NoRequest,
     ctype |-> NotSet, read |-> "none", closeFails |-> FALSE,
     captured |-> "none", failure |-> NoFailure]

\* No authenticator was asked for yet.  args keeps the arguments
\* IdentityV2Authenticator was called with.
NoArgs == [identityUrl |-> [parses |-> TRUE], username |-> "",
           password |-> "", apikey |-> ""]

NoImpl == [made |-> FALSE, err |-> NoError, args |-> NoArgs,
           username |-> "", password |-> "", apikey |-> ""]

Depth(t) == Len(stack[t])

Top(t) == stack[t][Depth(t)]

SetTop(t, f) == [stack EXCEPT ![t][Depth(t)] = f]

KindAt(f) == ChainOf(f.client)[f.pos]

AtInterceptor(t) ==
    /\ Depth(t) > 0
    /\ Top(t).pc = "call"
    /\ Top(t).pos <= Len(ChainOf(Top(t).client))

\* The inputs of Exchange.
UrlIns == {[parses |-> TRUE], [parses |-> FALSE]}

Methods == {[valid |-> TRUE], [valid |-> FALSE]}

\* (where the request entity is not what is looked at: none, and one that
\* buildBodyReader refuses)
ReqEntities == {NoEntity, Entity(TextType, "ref")}

RespEntities == {NoEntity, NewJsonEntity("ref"), Entity(TextType, "ref")}

\* Every kind of entity: each content type (none, JSON, text, one that is
\* neither) with each shape of content (a string, bytes, an io.Reader or
\* io.Writer, a reference to a value, nil).
XmlType == "application/xml"

ContentTypes == {"", JsonType, TextType, XmlType}

AllReqEntities ==
    {NoEntity} \cup
    {Entity(ct, c) : ct \in ContentTypes,
                     c \in {"string", "bytes", "reader", "ref", "nil"}}

AllRespEntities ==
    {NoEntity} \cup
    {Entity(ct, c) : ct \in ContentTypes,
                     c \in {"string", "bytes", "writer", "ref", "nil"}}

\* The (reqIn, respOut) pairs of an Exchange: every request entity with no
\* or a JSON response entity, every response entity with no or a text
\* request entity.
EntityPairs ==
    (AllReqEntities \X {NoEntity, NewJsonEntity("ref")})
    \cup ({NoEntity, NewTextEntity} \X AllRespEntities)

\* The arguments of IdentityV2Authenticator.
Usernames == {"", "user"}

Passwords == {"", "secret"}

Apikeys == {"", "key"}

Init ==
    /\ interceptors = <<>>
    /\ now = 1
    /\ token = EmptyToken
    /\ tokenExpiration = ZeroTime
    /\ expirationFrom = EmptyToken
    /\ nextId = 1
    /\ calls = 0
    /\ impl = NoImpl
    /\ stack = [t \in Callers |-> <<>>]
    /\ returned = NoResult
    /\ expiredOnArrival = FALSE

\* ----------------------------------------------------------------- actions
\* IdentityV2Authenticator, while the client is being set up: the checks
\* of its arguments, then the impl whose intercept method it returns.
IdentityV2Authenticator(identityUrl, username, password, apikey) ==
    /\ calls = 0
    /\ impl = NoImpl
    /\ LET called == [NoImpl EXCEPT !.made = TRUE,
                           !.args = [identityUrl |-> identityUrl,
                                     username |-> username,
                                     password |-> password, apikey |-> apikey]]
       IN  impl' =
             IF username = ""
             THEN [called EXCEPT !.err = Err("username is required")]
             ELSE IF password = "" /\ apikey = ""
             THEN [called EXCEPT !.err = Err("password or Apikey is required")]
             ELSE IF ~identityUrl.parses
             THEN [called EXCEPT
                      !.err = Wrap("invalid Identity URL",
                                   Wrap("failed to parse given base url",
                                        Err("url")))]
             ELSE [called EXCEPT !.username = username,
                                 !.password = password, !.apikey = apikey]
    /\ UNCHANGED <<interceptors, now, token, tokenExpiration, expirationFrom,
                   nextId, calls, stack, returned, expiredOnArrival>>

\* Client.AddInterceptor, while the client is being set up.  One
\* authenticator instance exists; it is registered at most once, and only
\* if IdentityV2Authenticator returned it.
AddInterceptor(k) ==
    /\ calls = 0
    /\ Len(interceptors) < MaxChain
    /\ k = "auth" => \A i \in 1..Len(interceptors) : interceptors[i] # "auth"
    /\ k = "auth" => impl.made /\ impl.err = NoError
    /\ interceptors' = Append(interceptors, k)
    /\ UNCHANGED <<now, token, tokenExpiration, expirationFrom, nextId,
                   calls, stack, returned,
                   impl, expiredOnArrival>>

\* Time passes.
Tick ==
    /\ now < MaxTime
    /\ now' = now + 1
    /\ UNCHANGED <<interceptors, token, tokenExpiration, expirationFrom,
                   nextId, calls, stack, returned,
                   impl, expiredOnArrival>>

\* Client.Exchange up to the call of doRequest: a build error returns at
\* once, otherwise doRequest starts at the front of the list.
Exchange(t, method, urlIn, reqIn, encodes, respOut) ==
    /\ Depth(t) = 0
    /\ calls < MaxCalls
    /\ calls' = calls + 1
    /\ LET uerr == buildReqUrl(urlIn)
           body == buildBodyReader(reqIn, encodes)
           rerr == buildRequest(method)
           berr == IF uerr # NoError THEN uerr
                   ELSE IF body.err # NoError THEN body.err ELSE rerr
       IN  IF berr # NoError
           THEN /\ returned' = [NoResult EXCEPT !.done = TRUE, !.caller = t,
                                  !.err = berr, !.reqIn = reqIn,
                                  !.respOut = respOut,
                                  !.stage = IF uerr # NoError THEN "url"
                                            ELSE IF body.err # NoError THEN "body"
                                            ELSE "request",
                                  !.reader = IF uerr # NoError THEN @ ELSE body]
                /\ UNCHANGED stack
           ELSE /\ stack' = [stack EXCEPT ![t] =
                                <<[NewFrame("outer", reqIn, respOut) EXCEPT
                                     !.args = [method |-> method,
                                               urlIn |-> urlIn,
                                               encodes |-> body.body = "json"
                                                           => encodes]]>>]
                /\ returned' = NoResult
    /\ UNCHANGED <<interceptors, now, token, tokenExpiration, expirationFrom,
                   nextId,
                   impl, expiredOnArrival>>

\* doRequest calls an interceptor that runs its code and calls next(req).
InterceptorCallsNext(t) ==
    /\ AtInterceptor(t)
    /\ KindAt(Top(t)) \in {"pass", "postfail"}
    /\ Len(Top(t).up) < MaxStack
    /\ LET f == Top(t)
       IN  stack' = SetTop(t, [f EXCEPT
                 !.log = @ \o <<<<"enter", f.pos>>, <<"next", f.pos>>>>,
                 !.up = Append(@, f.pos), !.pos = NextElem(f.pos)])
    /\ UNCHANGED <<interceptors, now, token, tokenExpiration, expirationFrom,
                   nextId, calls, returned,
                   impl, expiredOnArrival>>

\* doRequest calls an interceptor that returns an error without calling next.
InterceptorFails(t) ==
    /\ AtInterceptor(t)
    /\ KindAt(Top(t)) = "fail"
    /\ LET f == Top(t)
           r == doRequestReturn(0, Err("interceptor"))
       IN  stack' = SetTop(t, [f EXCEPT
                 !.log = Append(@, <<"enter", f.pos>>),
                 !.pc = "ret", !.raised = Err("interceptor"),
                 !.status = r.status, !.err = r.err])
    /\ UNCHANGED <<interceptors, now, token, tokenExpiration, expirationFrom,
                   nextId, calls, returned,
                   impl, expiredOnArrival>>

\* identityV2AuthenticatorImpl.intercept, the expiry check: an expired (or
\* never set) tokenExpiration calls authenticate, which runs Exchange on the
\* private client; otherwise the call goes on to set the header.
AuthIntercept(t) ==
    /\ AtInterceptor(t)
    /\ KindAt(Top(t)) = "auth"
    /\ LET f == Top(t)
           g == [f EXCEPT !.log = Append(@, <<"enter", f.pos>>),
                          !.chk = Compare(now, tokenExpiration)]
       IN  IF tokenExpired(now, tokenExpiration)
           THEN stack' = [stack EXCEPT ![t] =
                    <<[g EXCEPT !.pc = "authenticate", !.refreshes = @ + 1]>>
                    \o <<NewFrame("identity",
                                  NewJsonEntity(authRequest(impl.password,
                                                            impl.apikey)),
                                  NewJsonEntity("ref"))>>]
           ELSE stack' = SetTop(t, [g EXCEPT !.pc = "sethdr"])
    /\ UNCHANGED <<interceptors, now, token, tokenExpiration, expirationFrom,
                   nextId, calls, returned,
                   impl, expiredOnArrival>>

\* doRequest with interceptorElem == nil: http.DefaultClient.Do(req) starts.
Send(t) ==
    /\ Depth(t) > 0
    /\ Top(t).pc = "call"
    /\ Top(t).pos > Len(ChainOf(Top(t).client))
    /\ LET f == Top(t)
       IN  stack' = SetTop(t, [f EXCEPT !.pc = "sending", !.sends = @ + 1,
                                        !.log = Append(@, <<"send", 0>>)])
    /\ UNCHANGED <<interceptors, now, token, tokenExpiration, expirationFrom,
                   nextId, calls, returned,
                   impl, expiredOnArrival>>

\* http.DefaultClient.Do returns: a transport error (among them the
\* deadline of the timeout context), or a response with an open body.
Receive(t, outcome, ctype) ==
    /\ Depth(t) > 0
    /\ Top(t).pc = "sending"
    /\ LET f == Top(t)
       IN  IF outcome = 0
           THEN stack' = SetTop(t, [f EXCEPT !.pc = "ret", !.status = 0,
                                    !.err = Err("transport")])
           ELSE stack' = SetTop(t, [f EXCEPT !.pc = "ret", !.status = outcome,
                                    !.err = NoError, !.body = "open",
                                    !.ctype = ctype])
    /\ UNCHANGED <<interceptors, now, token, tokenExpiration, expirationFrom,
                   nextId, calls, returned,
                   impl, expiredOnArrival>>

\* next(req) returns into the interceptor that called it, which runs the
\* rest of its code and returns to doRequest.
ReturnFromNext(t) ==
    /\ Depth(t) > 0
    /\ Top(t).pc = "ret"
    /\ Top(t).up # <<>>
    /\ LET f == Top(t)
           i == f.up[Len(f.up)]
           own == IF ChainOf(f.client)[i] = "postfail" /\ f.err = NoError
                  THEN Err("interceptor") ELSE f.err
           r == doRequestReturn(f.status, own)
       IN  stack' = SetTop(t, [f EXCEPT
                 !.log = Append(@, <<"post", i>>),
                 !.up = SubSeq(@, 1, Len(@) - 1), !.pos = i,
                 !.status = r.status, !.err = r.err])
    /\ UNCHANGED <<interceptors, now, token, tokenExpiration, expirationFrom,
                   nextId, calls, returned,
                   impl, expiredOnArrival>>

\* ExchangeWithContext of the caller's exchange, from the return of
\* doRequest to its own return.
Return(t, read, closeFails) ==
    /\ Depth(t) = 1
    /\ Top(t).pc = "ret"
    /\ Top(t).up = <<>>
    /\ LET f == Top(t)
           r == exchangeReturn(f.status, f.err, f.body, f.respOut, read, closeFails)
       IN  returned' =
                [done |-> TRUE, caller |-> t, err |-> r.err, body |-> r.body, log |-> f.log,
                 sends |-> f.sends, chk |-> f.chk, refreshes |-> f.refreshes,
                 hdr |-> f.hdr, status |-> f.status, subErr |-> f.subErr,
                 subBody |-> f.subBody, raised |-> f.raised, built |-> TRUE,
                 stage |-> "sent", reqIn |-> f.reqIn, respOut |-> f.respOut,
                 reader |-> [body |-> f.req.body, err |-> NoError],
                 req |-> f.req, ctype |-> f.ctype,
                 read |-> IF f.err = NoError
                             /\ (isFailedStatus(f.status) \/ f.respOut # NoEntity)
                          THEN read ELSE "none",
                 closeFails |-> f.err = NoError /\ closeFails,
                 captured |->
                     IF f.err = NoError /\ ~isFailedStatus(f.status)
                        /\ f.respOut # NoEntity
                     THEN capturedContent(f.respOut, read)
                     ELSE f.respOut.Content,
                 failure |->
                     IF f.err = NoError /\ isFailedStatus(f.status)
                     THEN failedResponse(f.status, f.ctype, read)
                     ELSE NoFailure]
    /\ stack' = [stack EXCEPT ![t] = <<>>]
    /\ UNCHANGED <<interceptors, now, token, tokenExpiration, expirationFrom,
                   nextId, calls,
                   impl, expiredOnArrival>>

\* The exchange on the authenticator's private client returns into
\* authenticate: an error is wrapped and returned by intercept without
\* calling next; otherwise the decoded token id and expiry are at hand.
AuthenticateReturn(t, read, closeFails, expires) ==
    /\ Depth(t) = 2
    /\ Top(t).pc = "ret"
    /\ Top(t).up = <<>>
    /\ LET f == Top(t)
           p == stack[t][1]
           r == exchangeReturn(f.status, f.err, f.body, f.respOut, read, closeFails)
           q == [p EXCEPT !.subErr = r.err, !.subBody = r.body,
                          !.log = Append(@, <<"refresh", p.pos>>)]
       IN  IF authenticateFailed(r.err)
           THEN LET e == Wrap("failed to issue token request", r.err)
                    d == doRequestReturn(0, e)
                IN  /\ stack' = [stack EXCEPT ![t] =
                          <<[q EXCEPT !.pc = "ret", !.raised = e,
                                      !.status = d.status, !.err = d.err]>>]
                    /\ UNCHANGED <<nextId, expiredOnArrival>>
           ELSE /\ stack' = [stack EXCEPT ![t] =
                      <<[q EXCEPT !.pc = "storetok", !.authId = nextId,
                                  !.authExp = expires]>>]
                /\ nextId' = nextId + 1
                /\ expiredOnArrival' = ~(expires > now)
    /\ UNCHANGED <<interceptors, now, token, tokenExpiration, expirationFrom,
                   calls, returned,
                   impl>>

\* authenticate: a.token = resp.Access.Token.Id
StoreToken(t) ==
    /\ Depth(t) = 1
    /\ Top(t).pc = "storetok"
    /\ token' = Top(t).authId
    /\ stack' = SetTop(t, [Top(t) EXCEPT !.pc = "storeexp"])
    /\ UNCHANGED <<interceptors, now, tokenExpiration, expirationFrom, nextId,
                   calls, returned,
                   impl, expiredOnArrival>>

\* authenticate: a.tokenExpiration = resp.Access.Token.Expires
StoreExpiration(t) ==
    /\ Depth(t) = 1
    /\ Top(t).pc = "storeexp"
    /\ tokenExpiration' = Top(t).authExp
    /\ expirationFrom' = Top(t).authId
    /\ stack' = SetTop(t, [Top(t) EXCEPT !.pc = afterAuthenticate])
    /\ UNCHANGED <<interceptors, now, token, nextId, calls, returned,
                   impl, expiredOnArrival>>

\* intercept: req.Header.Set("x-auth-token", a.token)
SetAuthHeader(t) ==
    /\ Depth(t) = 1
    /\ Top(t).pc = "sethdr"
    /\ stack' = SetTop(t, [Top(t) EXCEPT !.hdr = token, !.pc = "next"])
    /\ UNCHANGED <<interceptors, now, token, tokenExpiration, expirationFrom,
                   nextId, calls, returned,
                   impl, expiredOnArrival>>

\* intercept: return next(req)
AuthNext(t) ==
    /\ Depth(t) = 1
    /\ Top(t).pc = "next"
    /\ Len(Top(t).up) < MaxStack
    /\ LET f == Top(t)
       IN  stack' = SetTop(t, [f EXCEPT !.log = Append(@, <<"next", f.pos>>),
                                        !.up = Append(@, f.pos),
                                        !.pos = NextElem(f.pos), !.pc = "call"])
    /\ UNCHANGED <<interceptors, now, token, tokenExpiration, expirationFrom,
                   nextId, calls, returned,
                   impl, expiredOnArrival>>

\* One step of caller t inside doRequest or the authenticator.
ChainStep(t) ==
    \/ InterceptorCallsNext(t)
    \/ AuthIntercept(t)
    \/ Send(t)
    \/ ReturnFromNext(t)
    \/ StoreToken(t)
    \/ StoreExpiration(t)
    \/ SetAuthHeader(t)
    \/ AuthNext(t)

\* The token expiries the identity service may answer with at time now:
\* already past, now, or up to MaxLifetime ahead.
Expiries == {x \in 0..(MaxTime + MaxLifetime) :
                 x >= now - 1 /\ x <= now + MaxLifetime}

\* One caller at a time: every interceptor behaviour, every status code.
NextSeq ==
    \/ IdentityV2Authenticator([parses |-> TRUE], "user", "", "key")
    \/ \E k \in Kinds : AddInterceptor(k)
    \/ Tick
    \/ \E m \in Methods, u \in UrlIns, q \in ReqEntities,
          e \in BOOLEAN, r \in RespEntities : Exchange(1, m, u, q, e, r)
    \/ ChainStep(1)
    \/ InterceptorFails(1)
    \/ \E o \in {0} \cup StatusCodes : Receive(1, o, JsonType)
    \/ \E rd \in BodyReads, cf \in BOOLEAN : Return(1, rd, cf)
    \/ \E rd \in BodyReads, cf \in BOOLEAN, x \in Expiries :
          AuthenticateReturn(1, rd, cf, x)

SpecSeq == Init /\ [][NextSeq]_vars

\* Overlapping callers, each step of each caller interleaved with the
\* steps of the others.
Next ==
    \/ IdentityV2Authenticator([parses |-> TRUE], "user", "", "key")
    \/ \E k \in {"pass", "auth"} : AddInterceptor(k)
    \/ Tick
    \/ \E t \in Callers, m \in Methods, u \in UrlIns, q \in ReqEntities,
          e \in BOOLEAN : Exchange(t, m, u, q, e, NoEntity)
    \/ \E t \in Callers : ChainStep(t)
    \/ \E t \in Callers, o \in {0, 200, 500} : Receive(t, o, JsonType)
    \/ \E t \in Callers, cf \in BOOLEAN : Return(t, "ok", cf)
    \/ \E t \in Callers, rd \in BodyReads, cf \in BOOLEAN, x \in Expiries :
          AuthenticateReturn(t, rd, cf, x)

Spec == Init /\ [][Next]_vars

\* One caller, interceptors that pass the request on, a valid method and
\* URL: every kind of request and response entity, every status code and
\* response header, every outcome of reading and closing the body.
NextIO ==
    \/ AddInterceptor("pass")
    \/ \E qr \in EntityPairs, e \in BOOLEAN :
          Exchange(1, [valid |-> TRUE], [parses |-> TRUE], qr[1], e, qr[2])
    \/ InterceptorCallsNext(1)
    \/ Send(1)
    \/ ReturnFromNext(1)
    \/ \E o \in {0} \cup StatusCodes, c \in RespContentTypes : Receive(1, o, c)
    \/ \E rd \in BodyReads, cf \in BOOLEAN : Return(1, rd, cf)

SpecIO == Init /\ [][NextIO]_vars

\* One caller, every combination of arguments of IdentityV2Authenticator.
NextAuth ==
    \/ \E u \in UrlIns, n \in Usernames, p \in Passwords, k \in Apikeys :
          IdentityV2Authenticator(u, n, p, k)
    \/ \E k \in {"pass", "auth"} : AddInterceptor(k)
    \/ \E m \in Methods, u \in UrlIns, q \in ReqEntities, e \in BOOLEAN :
          Exchange(1, m, u, q, e, NoEntity)
    \/ ChainStep(1)
    \/ \E o \in {0, 200, 500} : Receive(1, o, JsonType)
    \/ \E cf \in BOOLEAN : Return(1, "ok", cf)
    \/ \E rd \in BodyReads, cf \in BOOLEAN, x \in Expiries :
          AuthenticateReturn(1, rd, cf, x)

SpecAuth == Init /\ [][NextAuth]_vars

\* Overlapping callers going through interceptors that call next: the
\* chain alone, without the authenticator's shared fields.
NextPar ==
    \/ \E k \in {"pass", "postfail"} : AddInterceptor(k)
    \/ \E t \in Callers, m \in Methods, u \in UrlIns, q \in ReqEntities,
          e \in BOOLEAN : Exchange(t, m, u, q, e, NoEntity)
    \/ \E t \in Callers : InterceptorCallsNext(t)
    \/ \E t \in Callers : Send(t)
    \/ \E t \in Callers : ReturnFromNext(t)
    \/ \E t \in Callers, o \in {0, 200, 500} : Receive(t, o, JsonType)
    \/ \E t \in Callers, cf \in BOOLEAN : Return(t, "ok", cf)

SpecPar == Init /\ [][NextPar]_vars

\* Every step a running exchange can take.
Progress(t) ==
    \/ ChainStep(t)
    \/ InterceptorFails(t)
    \/ \E o \in {0, 200, 500} : Receive(t, o, JsonType)
    \/ \E cf \in BOOLEAN : Return(t, "ok", cf)
    \/ \E rd \in BodyReads, cf \in BOOLEAN, x \in Expiries :
          AuthenticateReturn(t, rd, cf, x)

\* One caller, every interceptor behaviour, no response entity.
NextLive ==
    \/ IdentityV2Authenticator([parses |-> TRUE], "user", "", "key")
    \/ \E k \in Kinds : AddInterceptor(k)
    \/ Tick
    \/ \E m \in Methods, u \in UrlIns, q \in ReqEntities, e \in BOOLEAN :
          Exchange(1, m, u, q, e, NoEntity)
    \/ Progress(1)

\* One caller whose exchange keeps running: every interceptor body returns
\* and http.DefaultClient.Do returns a response or, at the deadline of the
\* timeout context at the latest, an error.
SpecLive == Init /\ [][NextLive]_vars /\ WF_vars(Progress(1))

\* ------------------------------------------------------ reading histories
Has(log, ev) == \E k \in 1..Len(log) : log[k] = ev

Count(log, ev) == Cardinality({k \in 1..Len(log) : log[k] = ev})

\* The log without the authenticator's refresh marks.
ChainEvents(log) == SelectSeq(log, LAMBDA ev : ev[1] # "refresh")

\* Nested-call order for n interceptors: each is entered and calls next in
\* registration order, one send, then the returns in reverse order.
NestedOrder(n) ==
    [k \in 1..(3 * n + 1) |->
        IF k <= 2 * n
        THEN IF k % 2 = 1 THEN <<"enter", (k + 1) \div 2>>
                          ELSE <<"next", k \div 2>>
        ELSE IF k = 2 * n + 1 THEN <<"send", 0>>
        ELSE <<"post", 3 * n + 2 - k>>]

\* An exchange has returned after its request was built and doRequest ran.
Returned == returned.done /\ returned.built

\* The authentication sub-exchange of the returned exchange failed.
RefreshFailed == Returned /\ returned.subErr # NoError

\* Every interceptor of the list is one that calls next once when it runs.
AllCallNext ==
    /\ \A i \in 1..Len(interceptors) : interceptors[i] # "fail"
    /\ ~RefreshFailed

\* ------------------------------------------------------------------ claims
\* C1: when every registered interceptor calls its continuation once, one
\* Exchange enters the interceptors in registration order, then sends once
\* on the transport, then runs the code after next() in reverse order.
C1_NestedCallOrder ==
    (Returned /\ AllCallNext) =>
        /\ ChainEvents(returned.log) = NestedOrder(Len(interceptors))
        /\ returned.sends = 1

C1_Witness ==
    /\ Returned /\ AllCallNext
    /\ Len(interceptors) >= 2
    /\ Has(returned.log, <<"post", 1>>)

\* C2 as stated: an interceptor that returns an error without calling next
\* stops the chain, nothing is sent, and the caller of Exchange gets that
\* very error.
C2_ErrorReturnedAsIs ==
    (Returned /\ returned.raised # NoError) =>
        /\ returned.sends = 0
        /\ returned.err = returned.raised

\* C2, amended: an interceptor that returns an error without calling next
\* stops the chain (no later interceptor is entered, nothing is sent), and
\* the caller of Exchange gets that error wrapped once in "failed to send
\* request".
C2_ShortCircuit ==
    (Returned /\ returned.raised # NoError) =>
        /\ returned.sends = 0
        /\ ~Has(returned.log, <<"send", 0>>)
        /\ \A i \in 1..Len(interceptors) :
              (Has(returned.log, <<"enter", i>>)
                 /\ ~Has(returned.log, <<"next", i>>))
              => \A j \in (i + 1)..Len(interceptors) :
                    ~Has(returned.log, <<"enter", j>>)
        /\ returned.err = Wrap("failed to send request", returned.raised)

C2_Witness ==
    /\ Returned
    /\ returned.raised = Err("interceptor")
    /\ Len(interceptors) = 2
    /\ interceptors[1] = "fail"
    /\ returned.err.wraps = <<"failed to send request">>

\* C3: a call whose expiry check finds the cached token still valid performs
\* no authentication sub-exchange (the only one of the window is the one
\* that obtained the token); a call made after expiry performs exactly one,
\* and that one has returned before the authenticator calls next.
C3_OneRefreshPerExpiry ==
    Returned =>
        /\ returned.chk = "before" => returned.refreshes = 0
        /\ returned.chk = "after" => returned.refreshes = 1
        /\ Count(returned.log, <<"send", 0>>) = returned.sends
        /\ \A i \in 1..Len(interceptors) :
              Count(returned.log, <<"refresh", i>>) =
                  (IF interceptors[i] = "auth" THEN returned.refreshes ELSE 0)
        /\ \A k \in 1..Len(returned.log) :
              (returned.log[k][1] = "refresh") =>
                  \A j \in 1..k : returned.log[j] # <<"next", returned.log[k][2]>>

\* A second call reused the token the first call obtained.
C3_Witness ==
    /\ Returned
    /\ returned.chk = "before"
    /\ returned.refreshes = 0
    /\ returned.hdr = token
    /\ token # EmptyToken
    /\ returned.sends = 1

\* C4 as stated: the refresh step runs if and only if no token was obtained
\* yet or the time is at or after expires_at.
C4_RefreshAtOrAfterExpiry ==
    \A t \in Callers :
        (Depth(t) > 0 /\ stack[t][1].chk # "none") =>
            (stack[t][1].refreshes = 1 <=> stack[t][1].chk \in {"at", "after"})

\* C4, amended: the refresh step runs if and only if the time is strictly
\* after tokenExpiration (the zero time before the first refresh, so the
\* first call always refreshes); a call at a time equal to tokenExpiration
\* reuses the cached token.
C4_RefreshStrictlyAfterExpiry ==
    /\ \A t \in Callers :
          (Depth(t) > 0 /\ stack[t][1].chk # "none") =>
              /\ stack[t][1].refreshes = 1 <=> stack[t][1].chk = "after"
              /\ stack[t][1].refreshes = 0 <=> stack[t][1].chk \in {"before", "at"}
    /\ (Returned /\ returned.chk # "none") =>
          (returned.refreshes = 1 <=> returned.chk = "after")
    /\ (token = EmptyToken /\ expirationFrom = EmptyToken) =>
          tokenExpired(now, tokenExpiration)

\* A call checked at the very instant of expiry and went on without a refresh.
C4_Witness ==
    /\ Returned
    /\ returned.chk = "at"
    /\ returned.refreshes = 0
    /\ returned.sends = 1

\* The step in which caller t's authentication sub-exchange returns an
\* error into authenticate.
RefreshFails(t) ==
    /\ Depth(t) = 2
    /\ Top(t).pc = "ret"
    /\ Top(t).up = <<>>
    /\ Len(stack'[t]) = 1
    /\ stack'[t][1].subErr # NoError

\* C5: when the authentication sub-exchange fails, the authenticator
\* returns that error wrapped, does not call next (no later interceptor is
\* entered, nothing is sent for the outer exchange), and writes neither
\* token nor tokenExpiration, so a call arriving next refreshes again.
C5_FailedRefresh ==
    /\ [](RefreshFailed =>
            /\ returned.raised =
                   Wrap("failed to issue token request", returned.subErr)
            /\ returned.err = Wrap("failed to send request", returned.raised)
            /\ returned.sends = 0
            /\ returned.hdr = NoHeader
            /\ \A i \in 1..Len(interceptors) :
                  interceptors[i] = "auth" =>
                      /\ ~Has(returned.log, <<"next", i>>)
                      /\ \A j \in (i + 1)..Len(interceptors) :
                            ~Has(returned.log, <<"enter", j>>)
            /\ tokenExpired(now, tokenExpiration))
    /\ [][\A t \in Callers :
            RefreshFails(t) =>
                /\ UNCHANGED <<token, tokenExpiration>>
                /\ stack'[t][1].pc = "ret"]_vars

\* A refresh failed on a status of 500 while an earlier token was cached.
C5_Witness ==
    /\ RefreshFailed
    /\ returned.subErr.kind = "FailedResponseError"
    /\ returned.subErr.code = 500
    /\ token # EmptyToken

\* C6: whenever the authenticator calls next, the request carries
\* x-auth-token equal to the cached token, and the cached token is the id
\* the latest successful authentication sub-exchange returned.
C6_HeaderIsCurrentToken ==
    \A t \in Callers :
        (Depth(t) = 1 /\ Top(t).pc = "next") =>
            /\ Top(t).hdr = token
            /\ token = nextId - 1

\* C7: whenever a call reads the token to set the header, the cached token
\* and the cached expiry come from the same authentication response.
C7_ConsistentPair ==
    \A t \in Callers :
        (Depth(t) = 1 /\ Top(t).pc = "sethdr") => token = expirationFrom

\* C8: at most one authentication sub-exchange is in flight.
C8_SingleRefreshInFlight ==
    Cardinality({t \in Callers : Depth(t) = 2}) <= 1

\* C9: whenever the transport produced a response, its body has been closed
\* by the time Exchange returns.
C9_BodyClosedOnReturn ==
    Returned =>
        /\ returned.body \in {"none", "closed"}
        /\ returned.subBody \in {"none", "closed"}

\* C10: a response with status 300 or more handed to ExchangeWithContext
\* yields a FailedResponseError, one with a status below 300 does not.
C10_FailureBoundary ==
    (Returned /\ returned.status # 0) =>
        /\ returned.status >= 300 =>
              /\ returned.err.kind = "FailedResponseError"
              /\ returned.err.code = returned.status
              /\ returned.err.wraps = <<>>
        /\ returned.status <= 299 => returned.err.kind # "FailedResponseError"

C10_Witness ==
    /\ Returned
    /\ returned.status = 300
    /\ returned.err.kind = "FailedResponseError"

\* C11 as stated: whenever the far end answered with a status outside
\* 200..299, below 200 included, Exchange returns a FailedResponseError, and
\* a status inside 200..299 never yields one.
C11_Non2xxIsFailedResponse ==
    (Returned /\ returned.status # 0) =>
        /\ (returned.status < 200 \/ returned.status > 299) =>
              /\ returned.err.kind = "FailedResponseError"
              /\ returned.err.wraps = <<>>
        /\ (returned.status >= 200 /\ returned.status <= 299) =>
              returned.err.kind # "FailedResponseError"

\* C12 as stated: for every response on the failure path the
\* FailedResponseError carries the response's status code and status line,
\* the response's Content-Type as the entity's content type, and the
\* complete response body as the entity's content.
C12_CompleteBodyCaptured ==
    (Returned /\ returned.status # 0 /\ isFailedStatus(returned.status)) =>
        /\ returned.err.kind = "FailedResponseError"
        /\ returned.failure.StatusCode = returned.status
        /\ returned.failure.Status = StatusLine(returned.status)
        /\ returned.failure.Entity.ContentType =
               (IF returned.ctype = NotSet THEN "" ELSE returned.ctype)
        /\ returned.failure.Entity.Content = "body as bytes"

\* C12, amended: the FailedResponseError carries the status code, the
\* status line and the Content-Type of the response, and as content the
\* bytes that could be read from the body: all of it when reading succeeds,
\* what came before the failure when reading fails.
C12_FailedResponseCarriesWhatWasRead ==
    /\ (Returned /\ returned.status # 0 /\ isFailedStatus(returned.status)) =>
          /\ returned.err.kind = "FailedResponseError"
          /\ returned.err.code = returned.status
          /\ returned.failure.StatusCode = returned.status
          /\ returned.failure.Status = StatusLine(returned.status)
          /\ returned.failure.Entity.ContentType =
                 (IF returned.ctype = NotSet THEN "" ELSE returned.ctype)
          /\ returned.read # "readErr" =>
                 returned.failure.Entity.Content = "body as bytes"
          /\ returned.read = "readErr" =>
                 returned.failure.Entity.Content = "part of body as bytes"
    /\ (Returned /\ ~isFailedStatus(returned.status)) =>
          returned.failure = NoFailure

\* Status 500 with a text body that was read to its end.
C12_Witness ==
    /\ Returned
    /\ returned.status = 500
    /\ returned.ctype = TextType
    /\ returned.read = "ok"
    /\ returned.failure.StatusCode = 500
    /\ returned.failure.Entity = [ContentType |-> TextType,
                                  Content |-> "body as bytes"]

\* C13: the authentication sub-exchange runs on the authenticator's own
\* client, whose interceptor list is empty: while a refresh is under way
\* neither the authenticator nor any interceptor of the outer client runs,
\* and a sub-exchange never starts a sub-exchange of its own.
C13_SubExchangeIsolated ==
    \A t \in Callers :
          /\ Depth(t) <= 2
          /\ Depth(t) >= 1 => stack[t][1].client = "outer"
          /\ Depth(t) = 2 =>
                /\ stack[t][2].client = "identity"
                /\ stack[t][1].pc = "authenticate"
                /\ KindAt(stack[t][1]) = "auth"
                /\ stack[t][2].up = <<>>
                /\ stack[t][2].chk = "none"
                /\ stack[t][2].refreshes = 0
                /\ stack[t][2].hdr = NoHeader
                /\ \A k \in 1..Len(stack[t][2].log) :
                      stack[t][2].log[k] = <<"send", 0>>
                /\ stack[t][1].sends = 0
                /\ ~Has(stack[t][1].log, <<"next", stack[t][1].pos>>)

\* A refresh is waiting for the identity service while the outer client has
\* another interceptor ahead of the authenticator.
C13_Witness ==
    /\ Depth(1) = 2
    /\ Top(1).pc = "sending"
    /\ Len(interceptors) = 2
    /\ interceptors[2] = "auth"
    /\ Has(stack[1][1].log, <<"enter", 1>>)

\* C14: IdentityV2Authenticator fails when the username is empty and when
\* password and apikey are both empty; with a username, a credential and an
\* identity URL that parses it succeeds; and when both credentials are given
\* every refresh posts the apikey request, never the password request.
C14_ConstructionAndCredential ==
    /\ impl.made =>
          /\ impl.args.username = "" => impl.err = Err("username is required")
          /\ (impl.args.password = "" /\ impl.args.apikey = "") =>
                impl.err # NoError
          /\ (/\ impl.args.username # ""
              /\ (impl.args.password # "" \/ impl.args.apikey # "")
              /\ impl.args.identityUrl.parses) =>
                /\ impl.err = NoError
                /\ impl.username = impl.args.username
                /\ impl.password = impl.args.password
                /\ impl.apikey = impl.args.apikey
    /\ (~impl.made \/ impl.err # NoError) =>
          \A i \in 1..Len(interceptors) : interceptors[i] # "auth"
    /\ \A t \in Callers :
          Depth(t) = 2 =>
              /\ Top(t).req.body = "json"
              /\ Top(t).req.headers =
                     [ContentType |-> JsonType, Accept |-> JsonType]
              /\ impl.apikey # "" =>
                     Top(t).reqIn = NewJsonEntity("apiKeyCredentials")
              /\ impl.apikey = "" =>
                     Top(t).reqIn = NewJsonEntity("passwordCredentials")

\* Both credentials were given and a refresh is on its way.
C14_Witness ==
    /\ Depth(1) = 2
    /\ Top(1).pc = "sending"
    /\ impl.password = "secret"
    /\ impl.apikey = "key"
    /\ Top(1).reqIn.Content = "apiKeyCredentials"

IsPrefix(s, t) == Len(s) <= Len(t) /\ SubSeq(t, 1, Len(s)) = s

\* C15: with exchanges running the same interceptor list at the same time,
\* each exchange still goes through the interceptors once each, in
\* registration order, and sends once: at every moment what an exchange has
\* done so far is a beginning of the nested order, whatever the other
\* exchanges are doing, and when it returns it has done all of it.
C15_ReentrantChain ==
    /\ \A t \in Callers :
          Depth(t) >= 1 =>
              LET f == stack[t][1]
              IN  /\ f.sends <= 1
                  /\ f.pos \in 1..(Len(interceptors) + 1)
                  /\ \A k \in 1..Len(f.up) : f.up[k] = k
                  /\ f.raised = NoError =>
                        IsPrefix(ChainEvents(f.log),
                                 NestedOrder(Len(interceptors)))
    /\ (Returned /\ ~RefreshFailed) =>
          /\ ChainEvents(returned.log) = NestedOrder(Len(interceptors))
          /\ \A i \in 1..Len(interceptors) :
                Count(returned.log, <<"enter", i>>) = 1
          /\ returned.sends = 1

\* One exchange has returned from a list of two interceptors while the
\* other caller's exchange is waiting for its response.
C15_Witness ==
    /\ Returned
    /\ returned.caller = 2
    /\ returned.sends = 1
    /\ Len(interceptors) = 2
    /\ Depth(1) = 1
    /\ stack[1][1].pc = "sending"
    /\ stack[1][1].up = <<1, 2>>

\* The error ExchangeWithContext makes of a failing resp.Body.Close().
CloseError == Wrap("failed to close response body", Err("close"))

\* C16: a failing close of the response body is the error of the exchange
\* exactly when nothing went wrong before it: after an otherwise successful
\* exchange the caller gets the close failure, after a failure status or a
\* read or decode error the caller gets that earlier error.
C16_CloseFailureReported ==
    (Returned /\ returned.body = "closed") =>
        /\ returned.err = CloseError =>
              /\ returned.closeFails
              /\ ~isFailedStatus(returned.status)
              /\ returned.failure = NoFailure
        /\ returned.closeFails => returned.err # NoError
        /\ (returned.closeFails /\ isFailedStatus(returned.status)) =>
              returned.err.kind = "FailedResponseError"
        /\ (returned.closeFails /\ ~isFailedStatus(returned.status)) =>
              /\ returned.respOut = NoEntity => returned.err = CloseError
              /\ (/\ returned.respOut.Content \in {"string", "bytes", "writer"}
                  /\ returned.read # "readErr") => returned.err = CloseError
              /\ (/\ returned.respOut.Content \in {"string", "bytes", "writer"}
                  /\ returned.read = "readErr") =>
                    returned.err.wraps = <<"failed to read response body">>
              /\ (/\ returned.respOut = NewJsonEntity("ref")
                  /\ returned.read = "ok") => returned.err = CloseError
              /\ (/\ returned.respOut = NewJsonEntity("ref")
                  /\ returned.read # "ok") =>
                    returned.err.wraps = <<"failed to decode response">>

\* The body was decoded, then closing it failed.
C16_Witness ==
    /\ Returned
    /\ returned.closeFails
    /\ returned.err = CloseError
    /\ returned.respOut = NewJsonEntity("ref")
    /\ returned.captured = "decoded into ref"

\* C17: the request buildRequest makes, the one the first interceptor is
\* handed, has a Content-Type header exactly when a request entity with a
\* non-empty ContentType is given, and an Accept header exactly when a
\* response entity with a non-empty ContentType is given; each header is
\* the entity's ContentType as it is, JSON, text or anything else.
C17_HeadersFromEntities ==
    \A t \in Callers :
        (Depth(t) >= 1 /\ stack[t][1].client = "outer") =>
            LET f == stack[t][1]
                h == f.req.headers
            IN  /\ h.ContentType # NotSet <=>
                      (f.reqIn # NoEntity /\ f.reqIn.ContentType # "")
                /\ h.ContentType # NotSet => h.ContentType = f.reqIn.ContentType
                /\ h.Accept # NotSet <=>
                      (f.respOut # NoEntity /\ f.respOut.ContentType # "")
                /\ h.Accept # NotSet => h.Accept = f.respOut.ContentType

\* The first interceptor is about to be handed a request with an XML body
\* that expects JSON back.
C17_Witness ==
    /\ Depth(1) = 1
    /\ Len(interceptors) >= 1
    /\ Top(1).pc = "call"
    /\ Top(1).pos = Front
    /\ Top(1).up = <<>>
    /\ Top(1).reqIn = Entity(XmlType, "string")
    /\ Top(1).req.headers = [ContentType |-> XmlType, Accept |-> JsonType]

\* The error buildBodyReader makes of an entity it has no rule for.
UnsupportedRequest == Err("unsupported combination of request content and type")

\* The request entity holds a value that is neither a string, bytes nor an
\* io.Reader, its content type is JSON and the value is not nil.
JsonValue(e) ==
    /\ e # NoEntity
    /\ e.Content \notin {"string", "bytes", "reader", "nil"}
    /\ e.ContentType = JsonType

\* C18 as stated: no entity gives no body; a string or bytes are sent
\* verbatim whatever the content type; a reader is passed through;
\* otherwise JSON type with non-nil content is JSON-serialized; every other
\* combination fails with the unsupported-entity error.
C18_TotalDispatch ==
    (returned.done /\ returned.stage \in {"body", "request", "sent"}) =>
        LET e == returned.reqIn
            r == returned.reader
        IN  /\ e = NoEntity => r = [body |-> "none", err |-> NoError]
            /\ (e # NoEntity /\ e.Content \in {"string", "bytes"}) =>
                  r = [body |-> "verbatim", err |-> NoError]
            /\ (e # NoEntity /\ e.Content = "reader") =>
                  r = [body |-> "stream", err |-> NoError]
            /\ JsonValue(e) => r = [body |-> "json", err |-> NoError]
            /\ (/\ e # NoEntity
                /\ e.Content \notin {"string", "bytes", "reader"}
                /\ ~JsonValue(e)) => r.err = UnsupportedRequest

\* C18, amended: as stated, except that JSON type with non-nil content is
\* JSON-serialized only if json.Encoder can encode the value; if it cannot,
\* Exchange fails with "failed to encode body".  An error of the body
\* selection is what Exchange returns, and nothing is sent.
C18_DispatchWithEncodeFailure ==
    (returned.done /\ returned.stage \in {"body", "request", "sent"}) =>
        LET e == returned.reqIn
            r == returned.reader
        IN  /\ e = NoEntity => r = [body |-> "none", err |-> NoError]
            /\ (e # NoEntity /\ e.Content \in {"string", "bytes"}) =>
                  r = [body |-> "verbatim", err |-> NoError]
            /\ (e # NoEntity /\ e.Content = "reader") =>
                  r = [body |-> "stream", err |-> NoError]
            /\ JsonValue(e) =>
                  \/ r = [body |-> "json", err |-> NoError]
                  \/ r.err = Wrap("failed to encode body", Err("encode"))
            /\ (/\ e # NoEntity
                /\ e.Content \notin {"string", "bytes", "reader"}
                /\ ~JsonValue(e)) => r.err = UnsupportedRequest
            /\ r.err # NoError <=> returned.stage = "body"
            /\ r.err # NoError =>
                  /\ returned.err = r.err
                  /\ returned.sends = 0
                  /\ ~returned.built

\* A string sent verbatim under the JSON content type.
C18_Witness ==
    /\ Returned
    /\ returned.reqIn = Entity(JsonType, "string")
    /\ returned.reader = [body |-> "verbatim", err |-> NoError]
    /\ returned.req.body = "verbatim"
    /\ returned.sends = 1

\* C19: on a response with a success status and a response entity given,
\* the body is captured by the shape of the entity's content (a string gets
\* the whole body as a string, bytes get it as bytes, a writer gets it
\* copied, a reference under the JSON type gets it decoded); a failing read
\* or decode, or a shape that is none of these, makes Exchange return an
\* error; and the body is closed in each of these cases.
C19_CaptureByShape ==
    (/\ Returned /\ returned.status # 0
     /\ ~isFailedStatus(returned.status)
     /\ returned.respOut # NoEntity) =>
        LET o == returned.respOut
            copied == o.Content \in {"string", "bytes", "writer"}
            decoded == ~copied /\ o.ContentType = JsonType /\ o.Content # "nil"
        IN  /\ returned.body = "closed"
            /\ returned.failure = NoFailure
            /\ (copied /\ returned.read # "readErr") =>
                  /\ returned.err \in {NoError, CloseError}
                  /\ o.Content = "string" => returned.captured = "body as string"
                  /\ o.Content = "bytes" => returned.captured = "body as bytes"
                  /\ o.Content = "writer" =>
                        returned.captured = "writer holding body"
            /\ (copied /\ returned.read = "readErr") =>
                  returned.err = Wrap("failed to read response body", Err("read"))
            /\ (decoded /\ returned.read = "ok") =>
                  /\ returned.err \in {NoError, CloseError}
                  /\ returned.captured = "decoded into ref"
            /\ (decoded /\ returned.read # "ok") =>
                  returned.err = Wrap("failed to decode response", Err("decode"))
            /\ (~copied /\ ~decoded) =>
                  /\ returned.err.kind =
                        "unsupported combination of request content reference and type"
                  /\ returned.captured = o.Content

\* A body copied into the caller's writer.
C19_Witness ==
    /\ Returned
    /\ returned.status = 200
    /\ returned.respOut = Entity(TextType, "writer")
    /\ returned.captured = "writer holding body"
    /\ returned.err = NoError
    /\ returned.body = "closed"

\* C20: every Exchange that was called returns to its caller, given that
\* interceptor bodies return and the transport returns a response or an
\* error; and the recursion of doRequest is never deeper than the
\* interceptor list is long.
C20_ExchangeReturns ==
    /\ \A t \in Callers : (Depth(t) > 0) ~> (Depth(t) = 0)
    /\ [](\A t \in Callers :
            \A d \in 1..Depth(t) :
                /\ Len(stack[t][d].up) <= Len(ChainOf(stack[t][d].client))
                /\ Len(stack[t][d].up) < MaxStack)

\* An exchange through two interceptors that had to refresh the token
\* first has returned.
C20_Witness ==
    /\ Returned
    /\ Len(interceptors) = 2
    /\ returned.refreshes = 1
    /\ returned.sends = 1
    /\ returned.err = NoError

\* One caller behind the authenticator, every method, URL and request
\* entity, encodable or not: exchanges that cannot be built next to
\* exchanges that run.
NextBuild ==
    \/ IdentityV2Authenticator([parses |-> TRUE], "user", "", "key")
    \/ \E k \in {"pass", "auth"} : AddInterceptor(k)
    \/ Tick
    \/ \E m \in Methods, u \in UrlIns, q \in AllReqEntities, e \in BOOLEAN :
          Exchange(1, m, u, q, e, NoEntity)
    \/ ChainStep(1)
    \/ \E o \in {0, 200} : Receive(1, o, JsonType)
    \/ Return(1, "ok", FALSE)
    \/ \E x \in Expiries : AuthenticateReturn(1, "ok", FALSE, x)

SpecBuild == Init /\ [][NextBuild]_vars

\* buildBodyReader has a rule for the request entity.
SupportedRequest(e) ==
    \/ e = NoEntity
    \/ e.Content \in {"string", "bytes", "reader"}
    \/ JsonValue(e)

\* C21: an Exchange whose building fails (the URL does not parse, the
\* request entity is an unsupported combination or does not encode, the
\* request cannot be set up) returns that error without invoking an
\* interceptor and without a transport send, and the token authenticator's
\* cached token and expiry are unchanged: a step that starts an exchange
\* and returns at once returns an error of one of the three build steps
\* with nothing run, sent or refreshed and token, tokenExpiration as
\* before; and only an exchange whose URL parses, whose method is valid and
\* whose request entity is supported and encodes goes on to the chain.
C21_BuildFailureTouchesNothing ==
    [][ /\ (calls' = calls + 1 /\ returned'.done) =>
              /\ returned'.err # NoError
              /\ ~returned'.built
              /\ returned'.stage \in {"url", "body", "request"}
              /\ returned'.log = <<>>
              /\ returned'.sends = 0
              /\ returned'.refreshes = 0
              /\ returned'.chk = "none"
              /\ UNCHANGED <<stack, token, tokenExpiration, expirationFrom,
                             nextId, interceptors>>
        /\ \A t \in Callers :
              (Depth(t) = 0 /\ Len(stack'[t]) = 1) =>
                  LET f == stack'[t][1]
                  IN  /\ f.args.urlIn.parses
                      /\ f.args.method.valid
                      /\ SupportedRequest(f.reqIn)
                      /\ JsonValue(f.reqIn) => f.args.encodes
                      /\ f.pos = Front /\ f.log = <<>> /\ f.sends = 0
      ]_vars

\* Behind an authenticator whose cached token has expired, an Exchange
\* failed to encode its request entity: the token is still the cached one.
C21_Witness ==
    /\ returned.done /\ ~returned.built
    /\ returned.stage = "body"
    /\ returned.err = Wrap("failed to encode body", Err("encode"))
    /\ Has(interceptors, "auth")
    /\ token # EmptyToken
    /\ tokenExpired(now, tokenExpiration)
    /\ calls = 2

\* The caller's response entity as Exchange leaves it: processResponseContent
\* assigns Content (or writes to, decodes into what it holds) and no
\* statement assigns ContentType.
RespOutAfter ==
    [ContentType |-> returned.respOut.ContentType,
     Content |-> returned.captured]

\* C22: the caller's response entity is written only on the success path.
\* When the chain returns an error, or the response status is >= 300,
\* Exchange returns an error and the entity's content and content type are
\* as the caller supplied them; the body of a failed response is in the
\* FailedResponseError's own entity and nowhere else.
C22_RespOutUntouchedOnFailure ==
    /\ (Returned /\ returned.status = 0) =>
          /\ returned.err # NoError
          /\ returned.err.wraps[1] = "failed to send request"
          /\ RespOutAfter = returned.respOut
          /\ returned.failure = NoFailure
    /\ (Returned /\ returned.status >= FailureThreshold) =>
          /\ returned.err.kind = "FailedResponseError"
          /\ RespOutAfter = returned.respOut
          /\ returned.failure.Entity.Content
                \in {"body as bytes", "part of body as bytes"}
    /\ (Returned /\ RespOutAfter # returned.respOut) =>
          /\ returned.status \in 1..(FailureThreshold - 1)
          /\ returned.sends = 1

\* Status 500 answered to an Exchange with a JSON response entity: the body
\* is in the FailedResponseError, the entity's reference was not decoded
\* into.
C22_Witness ==
    /\ Returned
    /\ returned.status = 500
    /\ returned.respOut = NewJsonEntity("ref")
    /\ returned.read = "ok"
    /\ RespOutAfter = NewJsonEntity("ref")
    /\ returned.failure.Entity.Content = "body as bytes"

\* What one call did at the authenticator: it entered it, refreshed and
\* called next at most once each.
AtMostOnce(r) ==
    /\ r.refreshes <= 1
    /\ \A i \in 1..Len(interceptors) :
          interceptors[i] = "auth" =>
              /\ Count(r.log, <<"enter", i>>) <= 1
              /\ Count(r.log, <<"refresh", i>>) <= 1
              /\ Count(r.log, <<"next", i>>) <= 1

\* A call whose refresh succeeded went on once, carrying the token that
\* refresh returned.
ProceedsWithReturnedToken ==
    (Returned /\ returned.refreshes = 1 /\ returned.subErr = NoError) =>
        /\ \A i \in 1..Len(interceptors) :
              interceptors[i] = "auth" =>
                  Count(returned.log, <<"next", i>>) = 1
        /\ returned.hdr = token
        /\ returned.hdr = nextId - 1

\* C23 as stated: each call through the authenticator refreshes at most
\* once and calls next at most once; after a successful refresh, even one
\* whose expiry is not in the future, the call goes on once with the
\* returned token, and the next call through the authenticator refreshes
\* again.
C23_NextCallRefreshes ==
    /\ \A t \in Callers : Depth(t) > 0 => AtMostOnce(stack[t][1])
    /\ Returned => AtMostOnce(returned)
    /\ ProceedsWithReturnedToken
    /\ \A t \in Callers :
          (Depth(t) > 0 /\ stack[t][1].chk # "none" /\ expiredOnArrival) =>
              stack[t][1].refreshes = 1

\* C23, amended: each call through the authenticator refreshes at most once
\* and calls next at most once; after a successful refresh, even one whose
\* expiry is not in the future, the call goes on once with the returned
\* token, and the next call through the authenticator refreshes again
\* unless its clock reading equals that expiry: time.Now().After is false
\* then, and the call reuses the token.
C23_NoRetryLoop ==
    /\ \A t \in Callers : Depth(t) > 0 => AtMostOnce(stack[t][1])
    /\ Returned => AtMostOnce(returned)
    /\ ProceedsWithReturnedToken
    /\ \A t \in Callers :
          (Depth(t) > 0 /\ stack[t][1].chk # "none" /\ expiredOnArrival) =>
              \/ stack[t][1].chk = "after" /\ stack[t][1].refreshes = 1
              \/ stack[t][1].chk = "at" /\ stack[t][1].refreshes = 0

\* The first call was given a token whose expiry had passed and went on
\* with it; the second call is refreshing again.
C23_Witness ==
    /\ calls = 2
    /\ Depth(1) = 2
    /\ expiredOnArrival
    /\ token = 1
    /\ stack[1][1].chk = "after"
    /\ stack[1][1].refreshes = 1
    /\ stack[1][1].pc = "authenticate"

====
